---- MODULE Spec2Model ----
(***************************************************************************)
(* The two question-answering notebooks, QnA_Mahabharata_Sparse.ipynb and  *)
(* QnA_Mahabharata_Dense.ipynb, as a state machine.                        *)
(*                                                                         *)
(* The state is what a notebook run touches: the corpus directory          *)
(* data/Mahabharata, the persisted files (mahabharata.db, mahabharata_faiss*)
(* and mahabharata_faiss.json), and the Python kernel (the names bound in  *)
(* its namespace and the objects they refer to).  One action per code cell.*)
(* A cell is a list of statements run in order; a statement that reads an  *)
(* unbound name raises NameError, a library call may raise, and either     *)
(* ends the cell with the effects of the earlier statements kept.  Cells   *)
(* are run top to bottom, with the skips the notebooks' notes describe     *)
(* (a session may start at the reload cell, and the reload cell may be     *)
(* skipped after save); the query cell may be run again, and the kernel    *)
(* may be restarted at any time.  The split of a text by the PreProcessor  *)
(* of each notebook is a second machine, SplitSpec.                        *)
(***************************************************************************)
EXTENDS Integers, Sequences, FiniteSets, TLC

VARIABLES nb, corpus, disk, pc, out, kernel, printed, writes, splitter

vars == <<nb, corpus, disk, pc, out, kernel, printed, writes, splitter>>

(***************************************************************************)
(* Bounds of the model.                                                    *)
(***************************************************************************)
MaxChunks == 11
MaxSentences == 3

(***************************************************************************)
(* Literals of the notebooks.                                              *)
(***************************************************************************)
RetrieverTopK == 10
ReaderTopK == 2
DenseSplitLength == 100
DenseSplitOverlap == 0
SparseSplitLength == 500
SparseSplitOverlap == 50
CombinedFile == "1-18 books combined.txt"
OtherFile == "other.txt"
Files == {CombinedFile, OtherFile}
DbPath == "mahabharata.db"
SqlUrl == "sqlite:///mahabharata.db"
IndexPath == "mahabharata_faiss"
ConfigPath == "mahabharata_faiss.json"
EmbeddingModel == "sentence-transformers/multi-qa-mpnet-base-dot-v1"
OtherEmbeddingModel == "sentence-transformers/all-mpnet-base-v2"
ReloadEmbeddingModel == "sentence-transformers/multi-qa-mpnet-base-dot-v1"
Queries == {"Who is Krishna?", "Who is called the divine son of Devaki?"}

(***************************************************************************)
(* The code cells of each notebook, top to bottom.                         *)
(***************************************************************************)
DenseCellsSaveFirst ==
  << "create_store", "doc_dir", "convert", "preprocess", "write",
     "retriever", "save", "update_embeddings", "reload", "reader", "pipe",
     "query", "print_answers" >>

DenseCells ==
  << "create_store", "doc_dir", "convert", "preprocess", "write",
     "retriever", "update_embeddings", "save", "reload", "reader", "pipe",
     "query", "print_answers" >>

SparseCellsPipeFirst ==
  << "create_store", "doc_dir", "index", "retriever", "pipe", "reader",
     "query", "pprint", "print_answers" >>

SparseCells ==
  << "create_store", "doc_dir", "index", "retriever", "reader",
     "pipe", "query", "pprint", "print_answers" >>

CellsOf(n) == IF n = "dense" THEN DenseCells ELSE SparseCells

AllCells == {DenseCells[i] : i \in 1..Len(DenseCells)}
              \cup {SparseCells[i] : i \in 1..Len(SparseCells)}

Pos(n, c) == CHOOSE i \in 1..Len(CellsOf(n)) : CellsOf(n)[i] = c


(***************************************************************************)
(* Documents.  A text is represented by the number of chunks the           *)
(* PreProcessor splits it into (0 for a blank text); a Document is one     *)
(* chunk of one file and carries the file as its metadata.                 *)
(***************************************************************************)
Doc(f, i) == [name |-> f, chunk |-> i]

Split(raw) == {Doc(raw.name, i) : i \in 1..raw.text}

FileRank(f) == IF f = CombinedFile THEN 0 ELSE 1

Before(d, e) ==
  \/ FileRank(d.name) < FileRank(e.name)
  \/ d.name = e.name /\ d.chunk < e.chunk

RankIn(S, d) == Cardinality({e \in S : Before(e, d)})

Min(a, b) == IF a <= b THEN a ELSE b

NoIndex == [d \in {} |-> EmbeddingModel]

NoPrediction == [query |-> "", documents |-> {}, answers |-> <<>>]


(***************************************************************************)
(* The kernel of a fresh Python process: nothing bound, no objects.        *)
(***************************************************************************)
FreshKernel ==
  [ bound |-> {},
    ref |-> [n \in {} |-> ""],
    stores |-> [s \in {} |-> 0],
    retrievers |-> [r \in {} |-> 0],
    readers |-> {},
    pipes |-> [p \in {} |-> 0],
    indexers |-> [p \in {} |-> 0],
    files_to_index |-> {},
    files_to_docs |-> {},
    docs |-> {},
    prediction |-> NoPrediction ]

NotRun == [c \in AllCells |-> "notrun"]

(* No text is being split. *)
NoSplit ==
  [text |-> <<>>, pos |-> 0, words |-> 0, sents |-> 0, chunks |-> <<>>,
   done |-> TRUE]

NoDisk == [p \in {} |-> 0]

NoWrites == [d \in {} |-> 0]

(***************************************************************************)
(* A statement of a cell: the names it reads, the call it makes and the    *)
(* names it binds when the call returns.                                   *)
(***************************************************************************)
Stmt(uses, call, binds) == [uses |-> uses, call |-> call, binds |-> binds]

StoreName(n) ==
  IF n = "dense" THEN "sqlite_document_store" ELSE "in_memory_document_store"

Put(f, key, val) == (key :> val) @@ f

Bump(w, D) ==
  [d \in (DOMAIN w) \cup D |->
     IF d \in D
       THEN Min((IF d \in DOMAIN w THEN w[d] ELSE 0) + 1, 2)
       ELSE w[d]]

(* The database file a store's sql_url names, and its Documents. *)
DbOf(d) == IF DbPath \in DOMAIN d THEN d[DbPath] ELSE {}

(* The store object the name sqlite_document_store / in_memory_document_store
   refers to. *)
CurStoreId(n, k) == k.ref[StoreName(n)]

CurStore(n, k) == k.stores[CurStoreId(n, k)]

(***************************************************************************)
(* The library calls of the cells.  Each takes the machine S (kernel k,    *)
(* disk d, the write count w of every stored Document, the print count p   *)
(* of the current prediction) and returns the machine after the call.      *)
(***************************************************************************)

NewFaissStoreHNSW(S) ==
  [S EXCEPT
     !.k.stores = Put(@, "store@create",
                      [kind |-> "FAISS", sql_url |-> SqlUrl,
                       faiss_index_factory_str |-> "HNSW",
                       docs |-> {}, index |-> NoIndex]),
     !.k.ref = Put(@, "sqlite_document_store", "store@create"),
     !.d = Put(@, DbPath, DbOf(S.d))]

(* FAISSDocumentStore(sql_url=sql_url, faiss_index_factory_str="Flat", ...):
   a new store object with an empty vector index; the database file of
   sql_url is created when it does not exist. *)
NewFaissStore(S) ==
  [S EXCEPT
     !.k.stores = Put(@, "store@create",
                      [kind |-> "FAISS", sql_url |-> SqlUrl,
                       faiss_index_factory_str |-> "Flat",
                       docs |-> {}, index |-> NoIndex]),
     !.k.ref = Put(@, "sqlite_document_store", "store@create"),
     !.d = Put(@, DbPath, DbOf(S.d))]

(* InMemoryDocumentStore(use_bm25=True): a new, empty store object that
   lives in the kernel only. *)
NewInMemoryStore(S) ==
  [S EXCEPT
     !.k.stores = Put(@, "store@create",
                      [kind |-> "InMemory", sql_url |-> "",
                       faiss_index_factory_str |-> "",
                       docs |-> {}, index |-> NoIndex]),
     !.k.ref = Put(@, "in_memory_document_store", "store@create")]

(* convert_files_to_docs(dir_path=doc_dir, ..., split_paragraphs=True): one
   raw document per file of the directory; blank text yields none. *)
ConvertFilesToDocs(S) ==
  [S EXCEPT
     !.k.files_to_docs =
        {[name |-> f, text |-> corpus[f]] : f \in {g \in DOMAIN corpus : corpus[g] > 0}}]

(* processor.process(files_to_docs): the split of every raw document. *)
Process(S) ==
  [S EXCEPT !.k.docs = UNION {Split(r) : r \in S.k.files_to_docs}]

(* sqlite_document_store.write_documents(docs): the Documents go to the
   database of the store; none has an embedding yet. *)
WriteDocuments(S) ==
  [S EXCEPT
     !.d = Put(@, DbPath, DbOf(S.d) \cup S.k.docs),
     !.w = Bump(@, S.k.docs)]

FilesToIndexOther(S) == [S EXCEPT !.k.files_to_index = {OtherFile}]

(* files_to_index = [doc_dir + "/1-18 books combined.txt"] *)
FilesToIndex(S) == [S EXCEPT !.k.files_to_index = {CombinedFile}]

(* TextIndexingPipeline(in_memory_document_store, preprocessor=...) *)
NewIndexingPipeline(S) ==
  [S EXCEPT
     !.k.indexers = Put(@, "indexing_pipeline",
                        [document_store |-> S.k.ref["in_memory_document_store"]]),
     !.k.ref = Put(@, "indexing_pipeline", "indexing_pipeline")]

(* indexing_pipeline.run_batch(file_paths=files_to_index): every listed file
   is converted, split and written to the pipeline's store. *)
RunBatch(S) ==
  LET sid == S.k.indexers[S.k.ref["indexing_pipeline"]].document_store
      new == UNION {Split([name |-> f, text |-> corpus[f]]) : f \in S.k.files_to_index}
  IN  [S EXCEPT
         !.k.stores[sid].docs = @ \cup new,
         !.w = Bump(@, new)]

(* EmbeddingRetriever(document_store=sqlite_document_store,
   embedding_model=...) of the create path and of the reload cell, and
   BM25Retriever(document_store=in_memory_document_store). *)
NewRetriever(S, site, storeName, model) ==
  [S EXCEPT
     !.k.retrievers = Put(@, site,
                          [document_store |-> S.k.ref[storeName],
                           embedding_model |-> model]),
     !.k.ref = Put(@, "retriever", site)]

(* sqlite_document_store.update_embeddings(retriever): every Document of the
   database gets the embedding the retriever's model computes for it. *)
UpdateEmbeddings(S) ==
  LET sid == S.k.ref["sqlite_document_store"]
      model == S.k.retrievers[S.k.ref["retriever"]].embedding_model
  IN  [S EXCEPT !.k.stores[sid].index = [d \in DbOf(S.d) |-> model]]

(* update_embeddings that raises: the index was reset before the first
   batch was embedded. *)
UpdateEmbeddingsFailed(S) ==
  LET sid == S.k.ref["sqlite_document_store"]
  IN  [S EXCEPT !.k.stores[sid].index = NoIndex]

(* sqlite_document_store.save(index_path): the vector index goes to
   index_path and the store's configuration to index_path + ".json". *)
Save(S, index_path) ==
  LET st == S.k.stores[S.k.ref["sqlite_document_store"]]
  IN  [S EXCEPT
         !.d = Put(Put(@, index_path, st.index),
                   index_path \o ".json",
                   [sql_url |-> st.sql_url,
                    faiss_index_factory_str |-> st.faiss_index_factory_str])]

(* FAISSDocumentStore.load(index_path, config_path): a new store object
   built from the saved configuration and the saved index. *)
Load(S, index_path, config_path) ==
  [S EXCEPT
     !.k.stores = Put(@, "store@load",
                      [kind |-> "FAISS",
                       sql_url |-> S.d[config_path].sql_url,
                       faiss_index_factory_str |-> S.d[config_path].faiss_index_factory_str,
                       docs |-> {}, index |-> S.d[index_path]]),
     !.k.ref = Put(@, "sqlite_document_store", "store@load")]

(* FARMReader(model_name_or_path="deepset/roberta-base-squad2", ...) *)
NewReader(S) ==
  [S EXCEPT !.k.readers = @ \cup {"reader"}, !.k.ref = Put(@, "reader", "reader")]

(* ExtractiveQAPipeline(reader, retriever) *)
NewPipeline(S) ==
  [S EXCEPT
     !.k.pipes = Put(@, "pipe", [reader |-> S.k.ref["reader"],
                                 retriever |-> S.k.ref["retriever"]]),
     !.k.ref = Put(@, "pipe", "pipe")]

PipeRunReembeds(S, arg) ==
  [S EXCEPT
     !.k.prediction = arg,
     !.p = 0,
     !.k.stores = [s \in DOMAIN @ |->
                     [@[s] EXCEPT !.index = [d \in DOMAIN @ |-> "query-time"]]]]

(* pipe.run(query=..., params=...): the prediction the two stages return. *)
PipeRun(S, arg) == [S EXCEPT !.k.prediction = arg, !.p = 0]

PrintPredictionConsumes(S) ==
  [S EXCEPT !.p = Min(@ + 1, 3), !.k.prediction = NoPrediction]

(* pprint(prediction), print_answers(prediction, details="medium") *)
PrintPrediction(S) == [S EXCEPT !.p = Min(@ + 1, 3)]

(***************************************************************************)
(* The two stages of pipe.run.  The ranking of a retriever is opaque to    *)
(* the notebooks: the Documents of the store are ranked in file order      *)
(* rotated by a shift that depends on the query, and the retriever returns *)
(* the top_k best ranked.                                                  *)
(* The reader returns at most top_k answers, each with its source Document,*)
(* here the first or the last of the Documents it was given.               *)
(***************************************************************************)
Searchable(st, d) ==
  IF st.kind = "FAISS" THEN (DOMAIN st.index) \cap DbOf(d) ELSE st.docs

Shift(q) == IF q = "Who is Krishna?" THEN 0 ELSE 1

TopK(S, start, K) ==
  IF S = {} THEN {}
  ELSE {x \in S : ((RankIn(S, x) + start) % Cardinality(S)) < K}

Retrieve(k, d, q, top_k) ==
  IF "pipe" \notin k.bound THEN {}
  ELSE LET rid == k.pipes[k.ref["pipe"]].retriever
           sid == k.retrievers[rid].document_store
       IN  TopK(Searchable(k.stores[sid], d), Shift(q), top_k)

Ends(R) ==
  {x \in R : RankIn(R, x) = 0 \/ RankIn(R, x) = Cardinality(R) - 1}

Read(R, top_k) == UNION {[1..n -> Ends(R)] : n \in 0..top_k}

(***************************************************************************)
(* What a call does when it returns, when it raises although the           *)
(* environment is sound, and what it leaves behind when it raises.         *)
(***************************************************************************)
Effect(n, call, S, arg) ==
  CASE call = "FAISSDocumentStore" -> NewFaissStore(S)
    [] call = "InMemoryDocumentStore" -> NewInMemoryStore(S)
    [] call = "convert_files_to_docs" -> ConvertFilesToDocs(S)
    [] call = "process" -> Process(S)
    [] call = "write_documents" -> WriteDocuments(S)
    [] call = "files_to_index" -> FilesToIndex(S)
    [] call = "TextIndexingPipeline" -> NewIndexingPipeline(S)
    [] call = "run_batch" -> RunBatch(S)
    [] call = "EmbeddingRetriever@create" ->
         NewRetriever(S, "retriever@create", "sqlite_document_store", EmbeddingModel)
    [] call = "EmbeddingRetriever@load" ->
         NewRetriever(S, "retriever@load", "sqlite_document_store",
                      ReloadEmbeddingModel)
    [] call = "BM25Retriever" ->
         NewRetriever(S, "retriever@create", "in_memory_document_store", "")
    [] call = "update_embeddings" -> UpdateEmbeddings(S)
    [] call = "save" -> Save(S, IndexPath)
    [] call = "load" -> Load(S, IndexPath, ConfigPath)
    [] call = "FARMReader" -> NewReader(S)
    [] call = "ExtractiveQAPipeline" -> NewPipeline(S)
    [] call = "run" -> PipeRun(S, arg)
    [] call \in {"pprint", "print_answers"} -> PrintPrediction(S)
    [] OTHER -> S

(* The calls that raise in the state S whatever the environment does:
   a new FAISS store over a database that already holds Documents (the
   note of the create section), a load without the saved files or with a
   database that does not match the saved index (the reload section), the
   assert of the reload cell, and run_batch on a missing file. *)
Raises(n, call, S) ==
  CASE call = "FAISSDocumentStore" -> DbOf(S.d) # {}
    [] call = "load" ->
         \/ IndexPath \notin DOMAIN S.d
         \/ ConfigPath \notin DOMAIN S.d
         \/ Cardinality(DOMAIN S.d[IndexPath]) # Cardinality(DbOf(S.d))
    [] call = "assert" -> CurStore(n, S.k).faiss_index_factory_str # "Flat"
    [] call = "run_batch" -> ~(S.k.files_to_index \subseteq DOMAIN corpus)
    [] OTHER -> FALSE

(* The calls that depend on the environment (model download, inference,
   disk) and may raise in any state. *)
Fallible ==
  {"EmbeddingRetriever@create", "EmbeddingRetriever@load", "FARMReader",
   "write_documents", "update_embeddings", "save", "run"}

ErrorOf(call) == IF call = "assert" THEN "AssertionError" ELSE "LibraryError"

FailedFallsBack(call, S) ==
  IF call = "update_embeddings" THEN UpdateEmbeddingsFailed(S)
  ELSE IF call = "load" THEN NewFaissStore(S)
  ELSE S

Failed(call, S) ==
  IF call = "update_embeddings" THEN UpdateEmbeddingsFailed(S) ELSE S

(***************************************************************************)
(* Running a cell: its statements in order from the i-th.  The statement   *)
(* numbered `fail` is the one whose call the environment makes raise (0:   *)
(* none).  An exception ends the cell; a name is bound only when the       *)
(* statement that binds it has completed.                                  *)
(***************************************************************************)
RECURSIVE RunFrom(_, _, _, _, _, _)
RunFrom(n, stmts, i, S, fail, arg) ==
  IF i > Len(stmts) THEN [S EXCEPT !.outcome = "ok"]
  ELSE IF ~(stmts[i].uses \subseteq S.k.bound)
    THEN [S EXCEPT !.outcome = "NameError"]
  ELSE IF fail = i \/ Raises(n, stmts[i].call, S)
    THEN [Failed(stmts[i].call, S) EXCEPT !.outcome = ErrorOf(stmts[i].call)]
  ELSE LET T == Effect(n, stmts[i].call, S, arg)
       IN  RunFrom(n, stmts, i + 1,
                   [T EXCEPT !.k.bound = @ \cup stmts[i].binds], fail, arg)

FailPoints(stmts) ==
  {0} \cup {i \in 1..Len(stmts) : stmts[i].call \in Fallible}

(***************************************************************************)
(* The statements of every code cell.                                      *)
(***************************************************************************)
DenseCreateStoreStmts ==
  << Stmt({}, "import", {"faiss"}),
     Stmt({}, "import", {"FAISSDocumentStore"}),
     Stmt({}, "assign", {"sql_url"}),
     Stmt({"FAISSDocumentStore", "sql_url"}, "FAISSDocumentStore",
          {"sqlite_document_store"}) >>

DocDirStmts == << Stmt({}, "assign", {"doc_dir"}) >>

ConvertStmts ==
  << Stmt({}, "import", {"clean_wiki_text", "convert_files_to_docs"}),
     Stmt({"convert_files_to_docs", "doc_dir", "clean_wiki_text"},
          "convert_files_to_docs", {"files_to_docs"}) >>

PreprocessStmts ==
  << Stmt({}, "import", {"PreProcessor"}),
     Stmt({"PreProcessor"}, "PreProcessor", {"processor"}),
     Stmt({"processor", "files_to_docs"}, "process", {"docs"}) >>

WriteStmtsTwice ==
  << Stmt({"sqlite_document_store", "docs"}, "write_documents", {}),
     Stmt({"sqlite_document_store", "docs"}, "write_documents", {}) >>

WriteStmts ==
  << Stmt({"sqlite_document_store", "docs"}, "write_documents", {}) >>

DenseRetrieverStmts ==
  << Stmt({}, "import", {"EmbeddingRetriever"}),
     Stmt({"EmbeddingRetriever", "sqlite_document_store"},
          "EmbeddingRetriever@create", {"retriever"}) >>

UpdateEmbeddingsStmts ==
  << Stmt({"sqlite_document_store", "retriever"}, "update_embeddings", {}) >>

SaveStmtsNoCall == << Stmt({"sqlite_document_store"}, "pass", {}) >>

SaveStmts == << Stmt({"sqlite_document_store"}, "save", {}) >>

ReloadStmtsStoreOnly ==
  << Stmt({}, "import", {"FAISSDocumentStore"}),
     Stmt({}, "import", {"EmbeddingRetriever"}),
     Stmt({"FAISSDocumentStore"}, "load", {"sqlite_document_store"}),
     Stmt({"sqlite_document_store"}, "assert", {}) >>

ReloadStmtsNoImports ==
  << Stmt({"FAISSDocumentStore"}, "load", {"sqlite_document_store"}),
     Stmt({"sqlite_document_store"}, "assert", {}),
     Stmt({"EmbeddingRetriever", "sqlite_document_store"},
          "EmbeddingRetriever@load", {"retriever"}) >>

ReloadStmts ==
  << Stmt({}, "import", {"FAISSDocumentStore"}),
     Stmt({}, "import", {"EmbeddingRetriever"}),
     Stmt({"FAISSDocumentStore"}, "load", {"sqlite_document_store"}),
     Stmt({"sqlite_document_store"}, "assert", {}),
     Stmt({"EmbeddingRetriever", "sqlite_document_store"},
          "EmbeddingRetriever@load", {"retriever"}) >>

ReaderStmts ==
  << Stmt({}, "import", {"FARMReader"}),
     Stmt({"FARMReader"}, "FARMReader", {"reader"}) >>

PipeStmts ==
  << Stmt({}, "import", {"ExtractiveQAPipeline"}),
     Stmt({"ExtractiveQAPipeline", "reader", "retriever"},
          "ExtractiveQAPipeline", {"pipe"}) >>

QueryStmts == << Stmt({"pipe"}, "run", {"prediction"}) >>

PrintAnswersStmts ==
  << Stmt({}, "import", {"print_answers"}),
     Stmt({"print_answers", "prediction"}, "print_answers", {}) >>

SparseCreateStoreStmts ==
  << Stmt({}, "import", {"InMemoryDocumentStore"}),
     Stmt({"InMemoryDocumentStore"}, "InMemoryDocumentStore",
          {"in_memory_document_store"}) >>

IndexStmts ==
  << Stmt({}, "import", {"os", "TextIndexingPipeline", "PreProcessor"}),
     Stmt({"doc_dir"}, "files_to_index", {"files_to_index"}),
     Stmt({"TextIndexingPipeline", "in_memory_document_store", "PreProcessor"},
          "TextIndexingPipeline", {"indexing_pipeline"}),
     Stmt({"indexing_pipeline", "files_to_index"}, "run_batch", {}) >>

SparseRetrieverStmts ==
  << Stmt({}, "import", {"BM25Retriever"}),
     Stmt({"BM25Retriever", "in_memory_document_store"}, "BM25Retriever",
          {"retriever"}) >>

PprintStmts ==
  << Stmt({}, "import", {"pprint"}),
     Stmt({"pprint", "prediction"}, "pprint", {}) >>

(***************************************************************************)
(* Running the cell c of notebook n.                                       *)
(***************************************************************************)
CanRun(c) ==
  \/ Pos(nb, c) = pc + 1
  \/ c = "query" /\ pc >= Pos(nb, "query")
  \/ nb = "dense" /\ c = "reload" /\ pc = 0
  \/ nb = "dense" /\ c = "reader" /\ pc = Pos(nb, "save")

Run(n, c, stmts, fail, arg) ==
  LET R == RunFrom(n, stmts, 1,
                   [k |-> kernel, d |-> disk, w |-> writes, p |-> printed,
                    outcome |-> "ok"],
                   fail, arg)
  IN  /\ kernel' = R.k
      /\ disk' = R.d
      /\ writes' = R.w
      /\ printed' = R.p
      /\ out' = [out EXCEPT ![c] = R.outcome]
      /\ pc' = Pos(n, c)
      /\ UNCHANGED <<nb, corpus, splitter>>

RunCell(n, c, stmts) ==
  \E fail \in FailPoints(stmts) : Run(n, c, stmts, fail, NoPrediction)

Notebooks == {"sparse", "dense"}

DenseCreateStoreCell ==
  /\ nb = "dense" /\ CanRun("create_store")
  /\ RunCell("dense", "create_store", DenseCreateStoreStmts)

SparseCreateStoreCell ==
  /\ nb = "sparse" /\ CanRun("create_store")
  /\ RunCell("sparse", "create_store", SparseCreateStoreStmts)

DocDirCell ==
  /\ CanRun("doc_dir")
  /\ RunCell(nb, "doc_dir", DocDirStmts)

ConvertCell ==
  /\ nb = "dense" /\ CanRun("convert")
  /\ RunCell("dense", "convert", ConvertStmts)

PreprocessCell ==
  /\ nb = "dense" /\ CanRun("preprocess")
  /\ RunCell("dense", "preprocess", PreprocessStmts)

WriteCell ==
  /\ nb = "dense" /\ CanRun("write")
  /\ RunCell("dense", "write", WriteStmts)

IndexCell ==
  /\ nb = "sparse" /\ CanRun("index")
  /\ RunCell("sparse", "index", IndexStmts)

DenseRetrieverCell ==
  /\ nb = "dense" /\ CanRun("retriever")
  /\ RunCell("dense", "retriever", DenseRetrieverStmts)

SparseRetrieverCell ==
  /\ nb = "sparse" /\ CanRun("retriever")
  /\ RunCell("sparse", "retriever", SparseRetrieverStmts)

UpdateEmbeddingsCell ==
  /\ nb = "dense" /\ CanRun("update_embeddings")
  /\ RunCell("dense", "update_embeddings", UpdateEmbeddingsStmts)

SaveCell ==
  /\ nb = "dense" /\ CanRun("save")
  /\ RunCell("dense", "save", SaveStmts)

ReloadCell ==
  /\ nb = "dense" /\ CanRun("reload")
  /\ RunCell("dense", "reload", ReloadStmts)

ReaderCell ==
  /\ CanRun("reader")
  /\ RunCell(nb, "reader", ReaderStmts)

PipeCell ==
  /\ CanRun("pipe")
  /\ RunCell(nb, "pipe", PipeStmts)

QueryCellParamsSwapped ==
  /\ CanRun("query")
  /\ \E q \in Queries :
       LET R == Retrieve(kernel, disk, q, ReaderTopK)
       IN  \E A \in Read(R, RetrieverTopK) :
             Run(nb, "query", QueryStmts, 0,
                 [query |-> q, documents |-> R, answers |-> A])

QueryCell ==
  /\ CanRun("query")
  /\ \E q \in Queries :
       LET R == Retrieve(kernel, disk, q, RetrieverTopK)
       IN  \E A \in Read(R, ReaderTopK) :
             Run(nb, "query", QueryStmts, 0,
                 [query |-> q, documents |-> R, answers |-> A])

(* The query cell when pipe.run raises. *)
QueryCellRaises ==
  /\ CanRun("query")
  /\ \E fail \in FailPoints(QueryStmts) \ {0} :
       Run(nb, "query", QueryStmts, fail, NoPrediction)

PprintCell ==
  /\ nb = "sparse" /\ CanRun("pprint")
  /\ RunCell("sparse", "pprint", PprintStmts)

PrintAnswersCell ==
  /\ CanRun("print_answers")
  /\ RunCell(nb, "print_answers", PrintAnswersStmts)

(* A kernel restart: the namespace and every object are lost, the files
   stay. *)
Restart ==
  /\ pc > 0
  /\ kernel' = FreshKernel
  /\ pc' = 0
  /\ out' = NotRun
  /\ printed' = 0
  /\ writes' = IF nb = "sparse" THEN NoWrites ELSE writes
  /\ UNCHANGED <<nb, corpus, disk, splitter>>

(***************************************************************************)
(* The corpus directory holds any of the files: the combined book, blank   *)
(* or long, and a stray short file, blank or of one chunk.                 *)
(***************************************************************************)
TextsOf(f) == IF f = CombinedFile THEN {0, MaxChunks} ELSE {0, 1}

Corpora ==
  UNION {{c \in [F -> 0..MaxChunks] : \A f \in F : c[f] \in TextsOf(f)} :
           F \in SUBSET Files}

Init ==
  /\ nb \in Notebooks
  /\ corpus \in Corpora
  /\ disk = NoDisk
  /\ pc = 0
  /\ out = NotRun
  /\ kernel = FreshKernel
  /\ printed = 0
  /\ writes = NoWrites
  /\ splitter = NoSplit

Next ==
  \/ DenseCreateStoreCell
  \/ SparseCreateStoreCell
  \/ DocDirCell
  \/ ConvertCell
  \/ PreprocessCell
  \/ WriteCell
  \/ IndexCell
  \/ DenseRetrieverCell
  \/ SparseRetrieverCell
  \/ UpdateEmbeddingsCell
  \/ SaveCell
  \/ ReloadCell
  \/ ReaderCell
  \/ PipeCell
  \/ QueryCell
  \/ QueryCellRaises
  \/ PprintCell
  \/ PrintAnswersCell
  \/ Restart

Spec == Init /\ [][Next]_vars

(***************************************************************************)
(* The split of one text by the PreProcessor each notebook configures.  A  *)
(* text is the sequence of its sentences, each given by its number of      *)
(* words; a chunk is given by its number of words and, when it is made of  *)
(* whole sentences, their number.                                          *)
(***************************************************************************)
PreProcessorOf(n) ==
  IF n = "dense"
    THEN [split_length |-> DenseSplitLength,
          split_overlap |-> DenseSplitOverlap,
          split_respect_sentence_boundary |-> TRUE]
    ELSE [split_length |-> SparseSplitLength,
          split_overlap |-> SparseSplitOverlap,
          split_respect_sentence_boundary |-> FALSE]

RECURSIVE SumSeq(_)
SumSeq(q) == IF q = <<>> THEN 0 ELSE Head(q) + SumSeq(Tail(q))

Chunk(words, sentences) == [words |-> words, sentences |-> sentences]

TakeSentenceLateCheck(cfg, s) ==
  LET n == s.text[s.pos]
      flush == s.words > cfg.split_length
  IN  [s EXCEPT
         !.chunks = IF flush /\ s.sents > 0
                      THEN Append(@, Chunk(s.words, s.sents)) ELSE @,
         !.words = (IF flush THEN 0 ELSE @) + n,
         !.sents = (IF flush THEN 0 ELSE @) + 1,
         !.pos = @ + 1]

(* split_respect_sentence_boundary=True, split_overlap=0: the next sentence
   joins the current slice unless the slice would then exceed split_length;
   in that case the slice, if it has a sentence, becomes a chunk and the
   sentence starts a new slice.  A sentence is never cut. *)
TakeSentence(cfg, s) ==
  LET n == s.text[s.pos]
      flush == s.words + n > cfg.split_length
  IN  [s EXCEPT
         !.chunks = IF flush /\ s.sents > 0
                      THEN Append(@, Chunk(s.words, s.sents)) ELSE @,
         !.words = (IF flush THEN 0 ELSE @) + n,
         !.sents = (IF flush THEN 0 ELSE @) + 1,
         !.pos = @ + 1]

(* The end of the text: the last slice becomes a chunk. *)
LastSlice(s) ==
  [s EXCEPT
     !.chunks = IF s.sents > 0 THEN Append(@, Chunk(s.words, s.sents)) ELSE @,
     !.words = 0, !.sents = 0, !.done = TRUE]

(* split_respect_sentence_boundary=False: windows of split_length words,
   each starting split_length - split_overlap words after the one before,
   until the last word is covered; an empty window gives no chunk. *)
TakeWindow(cfg, s) ==
  LET W == SumSeq(s.text)
      n == Min(cfg.split_length, W - s.pos)
  IN  [s EXCEPT
         !.chunks = IF n > 0 THEN Append(@, Chunk(n, 0)) ELSE @,
         !.pos = @ + cfg.split_length - cfg.split_overlap,
         !.done = (s.pos + cfg.split_length >= W)]

SplitFrame == UNCHANGED <<nb, corpus, disk, pc, out, kernel, printed, writes>>

SplitSentence ==
  /\ ~splitter.done
  /\ PreProcessorOf(nb).split_respect_sentence_boundary
  /\ splitter.pos <= Len(splitter.text)
  /\ splitter' = TakeSentence(PreProcessorOf(nb), splitter)
  /\ SplitFrame

SplitLastSlice ==
  /\ ~splitter.done
  /\ PreProcessorOf(nb).split_respect_sentence_boundary
  /\ splitter.pos > Len(splitter.text)
  /\ splitter' = LastSlice(splitter)
  /\ SplitFrame

SplitWindow ==
  /\ ~splitter.done
  /\ ~PreProcessorOf(nb).split_respect_sentence_boundary
  /\ splitter' = TakeWindow(PreProcessorOf(nb), splitter)
  /\ SplitFrame

(* The texts: up to MaxSentences sentences, short ones, one of exactly the
   dense split_length, and ones longer than either split_length. *)
SentenceWords == {1, 60, 100, 101, 460, 501}

Texts == UNION {[1..n -> SentenceWords] : n \in 0..MaxSentences}

SplitInit ==
  /\ nb \in Notebooks
  /\ corpus = [f \in {} |-> 0]
  /\ disk = NoDisk
  /\ pc = 0
  /\ out = NotRun
  /\ kernel = FreshKernel
  /\ printed = 0
  /\ writes = NoWrites
  /\ \E t \in Texts :
        splitter = [text |-> t,
                    pos |-> IF PreProcessorOf(nb).split_respect_sentence_boundary
                              THEN 1 ELSE 0,
                    words |-> 0, sents |-> 0, chunks |-> <<>>, done |-> FALSE]

SplitNext == SplitSentence \/ SplitLastSlice \/ SplitWindow

SplitSpec == SplitInit /\ [][SplitNext]_vars

(***************************************************************************)
(* Notions the properties below are stated with.                           *)
(***************************************************************************)
Ok(c) == out[c] = "ok"

Bound(x) == x \in kernel.bound

(* The statements of cell c of notebook n. *)
StmtsOf(n, c) ==
  CASE c = "create_store" ->
         IF n = "dense" THEN DenseCreateStoreStmts ELSE SparseCreateStoreStmts
    [] c = "doc_dir" -> DocDirStmts
    [] c = "convert" -> ConvertStmts
    [] c = "preprocess" -> PreprocessStmts
    [] c = "write" -> WriteStmts
    [] c = "index" -> IndexStmts
    [] c = "retriever" ->
         IF n = "dense" THEN DenseRetrieverStmts ELSE SparseRetrieverStmts
    [] c = "update_embeddings" -> UpdateEmbeddingsStmts
    [] c = "save" -> SaveStmts
    [] c = "reload" -> ReloadStmts
    [] c = "reader" -> ReaderStmts
    [] c = "pipe" -> PipeStmts
    [] c = "query" -> QueryStmts
    [] c = "pprint" -> PprintStmts
    [] c = "print_answers" -> PrintAnswersStmts

CellSet(n) == {CellsOf(n)[i] : i \in 1..Len(CellsOf(n))}

CallsOf(n, c) == {StmtsOf(n, c)[i].call : i \in 1..Len(StmtsOf(n, c))}

(* The names cell c reads that no earlier statement of c binds. *)
ReadsOf(n, c) ==
  LET st == StmtsOf(n, c)
  IN  UNION {st[i].uses \ UNION {st[j].binds : j \in 1..(i - 1)} :
               i \in 1..Len(st)}

(* The Documents of a store object. *)
DocsOf(st) == IF st.kind = "FAISS" THEN DbOf(disk) ELSE st.docs

(* The step run by cell c. *)
Ran(c) == pc' = Pos(nb, c) /\ out'[c] # "notrun" /\ (pc # pc' \/ c = "query")

(***************************************************************************)
(* C1.  The steps happen in the order store, documents written, retriever, *)
(* reader, pipeline, query: the cells stand in that order in both          *)
(* notebooks, a query has completed only if the pipeline, the reader, the  *)
(* retriever and the store were constructed by cells that completed, the   *)
(* pipeline object refers to a reader and a retriever that exist, and      *)
(* every retriever refers to a store that exists.                          *)
(***************************************************************************)
CellOrder(n) ==
  LET w == IF n = "dense" THEN "write" ELSE "index"
  IN  /\ Pos(n, "create_store") < Pos(n, w)
      /\ Pos(n, w) < Pos(n, "retriever")
      /\ Pos(n, "retriever") < Pos(n, "reader")
      /\ Pos(n, "reader") < Pos(n, "pipe")
      /\ Pos(n, "pipe") < Pos(n, "query")
      /\ (n = "dense" =>
            /\ Pos(n, "retriever") < Pos(n, "reload")
            /\ Pos(n, "reload") < Pos(n, "reader"))

C1_StepsInOrder ==
  /\ \A n \in Notebooks : CellOrder(n)
  /\ (Ok("query") \/ Bound("prediction")) =>
        /\ Ok("pipe") /\ "pipe" \in DOMAIN kernel.pipes
        /\ Ok("reader")
        /\ Ok("retriever") \/ (nb = "dense" /\ Ok("reload"))
        /\ Ok("create_store") \/ (nb = "dense" /\ Ok("reload"))
  /\ Ok("pipe") => Ok("reader") /\ Bound("retriever")
  /\ \A p \in DOMAIN kernel.pipes :
        /\ kernel.pipes[p].reader \in kernel.readers
        /\ kernel.pipes[p].retriever \in DOMAIN kernel.retrievers
  /\ \A r \in DOMAIN kernel.retrievers :
        kernel.retrievers[r].document_store \in DOMAIN kernel.stores

C1_Witness ==
  /\ nb = "sparse"
  /\ Ok("query")
  /\ kernel.prediction.answers # <<>>

(***************************************************************************)
(* C2.  In the dense notebook a Document enters the database only by the   *)
(* write cell and is one of docs, the result of the PreProcessor split; it *)
(* is written by exactly one write_documents call; an embedded Document is *)
(* a written one and the index of a store object changes only in the       *)
(* update_embeddings cell; and the cells after that one (save, reload,     *)
(* reader, pipe, query, print) change neither the database nor any store   *)
(* object nor the embeddings seen through sqlite_document_store.           *)
(***************************************************************************)
LaterCells == {"save", "reload", "reader", "pipe", "query", "print_answers"}

C2_Step ==
  nb = "dense" =>
    /\ \A d \in DbOf(disk') \ DbOf(disk) :
          Ran("write") /\ Bound("docs") /\ d \in kernel.docs
    /\ kernel'.docs # kernel.docs => Ran("preprocess") \/ pc' = 0
    /\ \A d \in DbOf(disk') : writes'[d] = 1
    /\ \A s \in DOMAIN kernel'.stores :
          DOMAIN kernel'.stores[s].index \subseteq DbOf(disk')
    /\ \A s \in (DOMAIN kernel.stores) \cap (DOMAIN kernel'.stores) :
          kernel'.stores[s].index # kernel.stores[s].index
            => Ran("update_embeddings")
    /\ (\E c \in LaterCells : Ran(c)) =>
          /\ DbOf(disk') = DbOf(disk)
          /\ writes' = writes
          /\ \A s \in DOMAIN kernel.stores :
                kernel'.stores[s] = kernel.stores[s]
          /\ ("sqlite_document_store" \in kernel.bound) =>
                CurStore("dense", kernel').index = CurStore("dense", kernel).index

C2_DocumentLifecycle == [][C2_Step]_vars

C2_Witness ==
  /\ nb = "dense"
  /\ Ok("write") /\ Ok("update_embeddings") /\ Ok("reload") /\ Ok("query")
  /\ DbOf(disk) # {}
  /\ DOMAIN CurStore("dense", kernel).index = DbOf(disk)

(***************************************************************************)
(* C3.  Write once, query many: a run of the query cell, whatever the      *)
(* query and whether or not pipe.run raises, leaves the files, every store *)
(* object (its Documents and its embeddings), every retriever and the      *)
(* write counts as they were.                                              *)
(***************************************************************************)
C3_Step ==
  Ran("query") =>
    /\ disk' = disk
    /\ kernel'.stores = kernel.stores
    /\ kernel'.retrievers = kernel.retrievers
    /\ writes' = writes

C3_QueryLeavesStore == [][C3_Step]_vars

C3_Witness ==
  /\ nb = "dense"
  /\ Ok("query") /\ Ok("print_answers")
  /\ printed = 0
  /\ kernel.prediction.answers # <<>>

(***************************************************************************)
(* C4.  For every prediction the retriever returned at most 10 Documents,  *)
(* all Documents of the store of the pipeline's retriever, the reader at   *)
(* most 2 answers, and the source of every answer is one of the retrieved  *)
(* Documents.                                                              *)
(***************************************************************************)
PipeStore ==
  kernel.stores[kernel.retrievers[kernel.pipes["pipe"].retriever].document_store]

C4_TwoStage ==
  Bound("prediction") =>
    /\ Cardinality(kernel.prediction.documents) <= 10
    /\ kernel.prediction.documents \subseteq DocsOf(PipeStore)
    /\ Len(kernel.prediction.answers) <= 2
    /\ \A i \in 1..Len(kernel.prediction.answers) :
          kernel.prediction.answers[i] \in kernel.prediction.documents

C4_Witness ==
  /\ Bound("prediction")
  /\ Cardinality(DocsOf(PipeStore)) > 10
  /\ Cardinality(kernel.prediction.documents) = 10
  /\ Len(kernel.prediction.answers) = 2

(***************************************************************************)
(* C5.  Only the dense notebook persists state.  The sparse notebook never *)
(* writes a file, a restart leaves it without any store object, and a      *)
(* prediction with an answer exists only when the indexing cell completed  *)
(* in the same kernel.  In the dense notebook a completed save cell leaves *)
(* mahabharata.db, mahabharata_faiss and its configuration on disk, no     *)
(* step removes a file and a restart leaves the disk as it was.            *)
(***************************************************************************)
C5_Step ==
  /\ nb = "sparse" =>
       /\ disk' = NoDisk
       /\ pc' = 0 => DOMAIN kernel'.stores = {}
       /\ kernel'.prediction.answers # <<>> => out'["index"] = "ok"
  /\ nb = "dense" =>
       /\ out'["save"] = "ok" =>
            {DbPath, IndexPath, ConfigPath} \subseteq DOMAIN disk'
       /\ DOMAIN disk \subseteq DOMAIN disk'
       /\ pc' = 0 => disk' = disk

C5_OnlyDensePersists == [][C5_Step]_vars

C5_Witness ==
  /\ nb = "dense"
  /\ pc = 0
  /\ {DbPath, IndexPath, ConfigPath} \subseteq DOMAIN disk
  /\ DbOf(disk) # {}
  /\ DOMAIN disk[IndexPath] = DbOf(disk)

(***************************************************************************)
(* C6.  As claimed: once the indexing step has completed, every file of    *)
(* data/Mahabharata has at least one Document in the store, and every      *)
(* Document of the store comes from a file of that directory.              *)
(***************************************************************************)
Indexed == IF nb = "dense" THEN Ok("write") ELSE Ok("index")

StoreDocs ==
  IF nb = "dense" THEN DbOf(disk)
  ELSE UNION {kernel.stores[s].docs : s \in DOMAIN kernel.stores}

AssignsOf(n, c) ==
  UNION {StmtsOf(n, c)[i].binds :
           i \in {j \in 1..Len(StmtsOf(n, c)) : StmtsOf(n, c)[j].call # "import"}}

SameBinding(x) ==
  /\ x \in kernel'.bound <=> x \in kernel.bound
  /\ x \in (DOMAIN kernel.ref) \cap (DOMAIN kernel'.ref)
       => kernel'.ref[x] = kernel.ref[x]
  /\ x \in DOMAIN kernel'.ref => x \in DOMAIN kernel.ref

Failures == {"NameError", "LibraryError", "AssertionError"}

C7_FailureStep ==
  \A c \in CellSet(nb) :
    /\ (Ran(c) /\ out'[c] \in Failures) =>
          \A x \in AssignsOf(nb, c) : SameBinding(x)
    /\ (Ran(c) /\ out'[c] = "ok") =>
          \A e \in CellSet(nb) :
             (Pos(nb, e) < Pos(nb, c) /\ out[e] \in Failures)
               => ReadsOf(nb, c) \cap AssignsOf(nb, e) = {}

C7_FailedCellBindsNothing == [][C7_FailureStep]_vars

(***************************************************************************)
(* C7, amended.  A cell that does not complete ends with NameError, an     *)
(* exception of the library or the AssertionError of the reload cell, and  *)
(* nothing is retried or recovered: the cell stops at the statement that   *)
(* raised.  The statements before it keep their effect; the raising        *)
(* statement and those after it bind nothing, so a name the cell changes   *)
(* is bound by a completed statement that follows only completed ones, the *)
(* names of the last statement keep their previous value or stay unbound,  *)
(* nothing is unbound and the prediction is kept.  A cell completes only   *)
(* if every name it reads from earlier cells is bound.                     *)
(***************************************************************************)
LastBinds(n, c) == StmtsOf(n, c)[Len(StmtsOf(n, c))].binds

PrefixKept(n, c) ==
  \A i \in 1..Len(StmtsOf(n, c)) :
    \A x \in StmtsOf(n, c)[i].binds :
      ~SameBinding(x) =>
         /\ x \in kernel'.bound
         /\ \A j \in 1..i : StmtsOf(n, c)[j].binds \subseteq kernel'.bound

C7_AmendedStep ==
  \A c \in CellSet(nb) :
    /\ Ran(c) => out'[c] \in Failures \cup {"ok"}
    /\ (Ran(c) /\ out'[c] \in Failures) =>
          /\ kernel.bound \subseteq kernel'.bound
          /\ \A x \in LastBinds(nb, c) : SameBinding(x)
          /\ PrefixKept(nb, c)
          /\ kernel'.prediction = kernel.prediction
    /\ (Ran(c) /\ out'[c] = "ok") => ReadsOf(nb, c) \subseteq kernel.bound

C7_FailureKeepsEarlierStatements == [][C7_AmendedStep]_vars

C7_Witness ==
  /\ nb = "dense"
  /\ Ok("create_store")
  /\ out["reload"] = "LibraryError"
  /\ {"sqlite_document_store", "retriever"} \subseteq DOMAIN kernel.ref
  /\ kernel.ref["sqlite_document_store"] = "store@load"
  /\ kernel.ref["retriever"] = "retriever@create"
  /\ Ok("pipe") /\ Ok("query")

(***************************************************************************)
(* C8.  As claimed: a print cell changes neither the prediction nor the    *)
(* store nor the files, no other cell reads the prediction, and the        *)
(* prediction a print cell reads has not been printed before.              *)
(***************************************************************************)
PrintCells == {"pprint", "print_answers"}

OnlyPrintCellsRead ==
  \A n \in Notebooks :
    \A c \in CellSet(n) \ PrintCells : "prediction" \notin ReadsOf(n, c)

PrintFrame ==
  /\ kernel'.prediction = kernel.prediction
  /\ kernel'.stores = kernel.stores
  /\ disk' = disk

C8_OriginalStep ==
  /\ OnlyPrintCellsRead
  /\ \A c \in PrintCells \cap CellSet(nb) :
        (Ran(c) /\ out'[c] = "ok") => PrintFrame /\ printed = 0

C8_PrintedOnce == [][C8_OriginalStep]_vars

(***************************************************************************)
(* C8, amended.  A print cell changes neither the prediction nor the store *)
(* nor the files and no other cell reads the prediction.  A prediction can *)
(* be read after it has been printed, in two cases only: print_answers of  *)
(* the sparse notebook reads the prediction that pprint has just printed,  *)
(* and after a query that raised, the print cells read the prediction of   *)
(* the query before it.                                                    *)
(***************************************************************************)
C8_AmendedStep ==
  /\ OnlyPrintCellsRead
  /\ \A c \in PrintCells \cap CellSet(nb) :
        (Ran(c) /\ out'[c] = "ok") =>
           /\ PrintFrame
           /\ \/ printed = 0
              \/ nb = "sparse" /\ c = "print_answers" /\ Ok("pprint")
              \/ out["query"] = "LibraryError"

C8_PrintedByPrintCellsOnly == [][C8_AmendedStep]_vars

C8_Witness ==
  /\ nb = "sparse"
  /\ Ok("query") /\ Ok("pprint") /\ Ok("print_answers")
  /\ printed = 2
  /\ kernel.prediction.answers # <<>>

(***************************************************************************)
(* C9.  The assert of the reload cell never fails: the configuration that  *)
(* save writes and the store that load builds from it carry the            *)
(* faiss_index_factory_str "Flat" and the sql_url of the create cell.      *)
(***************************************************************************)
C9_AssertHolds ==
  /\ nb = "dense" => out["reload"] # "AssertionError"
  /\ ConfigPath \in DOMAIN disk =>
        /\ disk[ConfigPath].faiss_index_factory_str = "Flat"
        /\ disk[ConfigPath].sql_url = "sqlite:///mahabharata.db"
  /\ "store@load" \in DOMAIN kernel.stores =>
        /\ kernel.stores["store@load"].faiss_index_factory_str = "Flat"
        /\ kernel.stores["store@load"].sql_url = "sqlite:///mahabharata.db"

C9_Witness ==
  /\ nb = "dense"
  /\ Ok("reload")
  /\ "store@load" \in DOMAIN kernel.stores
  /\ DbOf(disk) # {}

(***************************************************************************)
(* C10.  The re-run path of the dense notebook is self-sufficient.  In a   *)
(* kernel where no cell of the create path has run, over the files of a    *)
(* completed create path, the reload, reader, pipe and query cells never   *)
(* end with NameError or AssertionError unless an earlier cell of the path *)
(* raised; when all four have completed, every name they use is bound;     *)
(* none of them calls write_documents or update_embeddings, and the store  *)
(* they query carries the saved embeddings.                                *)
(***************************************************************************)
CreatePath ==
  {"create_store", "doc_dir", "convert", "preprocess", "write", "retriever",
   "update_embeddings", "save"}

RerunPath == {"reload", "reader", "pipe", "query", "print_answers"}

Saved ==
  /\ {DbPath, IndexPath, ConfigPath} \subseteq DOMAIN disk
  /\ Cardinality(DOMAIN disk[IndexPath]) = Cardinality(DbOf(disk))

C10_RerunSelfSufficient ==
  /\ \A c \in RerunPath :
        CallsOf("dense", c) \cap {"write_documents", "update_embeddings"} = {}
  /\ (nb = "dense" /\ Saved /\ \A c \in CreatePath : out[c] = "notrun") =>
       /\ out["reload"] \notin {"NameError", "AssertionError"}
       /\ out["reader"] # "NameError"
       /\ out["pipe"] = "NameError" => ~Ok("reload") \/ ~Ok("reader")
       /\ out["query"] = "NameError" => ~Ok("pipe")
       /\ (Ok("reload") /\ Ok("reader") /\ Ok("pipe") /\ Ok("query")) =>
            /\ {"FAISSDocumentStore", "EmbeddingRetriever",
                "sqlite_document_store", "retriever", "reader", "pipe",
                "prediction"} \subseteq kernel.bound
            /\ PipeStore = CurStore("dense", kernel)
       /\ Bound("sqlite_document_store") =>
            CurStore("dense", kernel).index = disk[IndexPath]

C10_Witness ==
  /\ nb = "dense"
  /\ \A c \in CreatePath : out[c] = "notrun"
  /\ Ok("reload") /\ Ok("reader") /\ Ok("pipe") /\ Ok("query")
  /\ kernel.prediction.answers # <<>>

(***************************************************************************)
(* C11.  As claimed: in the dense notebook the saved index and the         *)
(* database describe the same Documents: whenever a saved index exists it  *)
(* has an embedding for every Document of the database and none without a  *)
(* Document.                                                               *)
(***************************************************************************)
SavedIndexDocs == IF IndexPath \in DOMAIN disk THEN DOMAIN disk[IndexPath] ELSE {}

C11_SavedIndexMatchesDatabase ==
  (nb = "dense" /\ IndexPath \in DOMAIN disk) => SavedIndexDocs = DbOf(disk)

(***************************************************************************)
(* C11, amended.  The save cell stands after the update_embeddings cell    *)
(* and no cell after it writes or embeds a Document.  When both cells have *)
(* completed, the saved index has exactly the Documents of the database.   *)
(* Nothing stops the save cell from running after update_embeddings did    *)
(* not complete; the saved index then lacks Documents of the database, but *)
(* it never holds an embedding without a Document, and load raises on such *)
(* files, so a store that was loaded has an embedding for every Document   *)
(* of the database at the time of any query.                               *)
(***************************************************************************)
C11_SavedAfterCompletedUpdate ==
  nb = "dense" =>
    /\ Pos("dense", "update_embeddings") < Pos("dense", "save")
    /\ \A c \in CellSet("dense") :
          Pos("dense", c) > Pos("dense", "save") =>
             CallsOf("dense", c) \cap {"write_documents", "update_embeddings"} = {}
    /\ (Ok("update_embeddings") /\ Ok("save")) => SavedIndexDocs = DbOf(disk)
    /\ SavedIndexDocs \subseteq DbOf(disk)
    /\ "store@load" \in DOMAIN kernel.stores =>
          DOMAIN kernel.stores["store@load"].index = DbOf(disk)
    /\ (Bound("prediction") /\ Bound("pipe")
          /\ kernel.retrievers[kernel.pipes["pipe"].retriever].document_store
               = "store@load")
         => kernel.prediction.documents \subseteq DOMAIN PipeStore.index

C11_Witness ==
  /\ nb = "dense"
  /\ \A c \in CreatePath : out[c] = "notrun"
  /\ SavedIndexDocs = DbOf(disk) /\ Cardinality(DbOf(disk)) = MaxChunks
  /\ Ok("reload") /\ Ok("query")
  /\ Cardinality(kernel.prediction.documents) = 10

(***************************************************************************)
(* C12.  As claimed: every chunk the PreProcessor makes has at most        *)
(* split_length words, 100 in the dense notebook and 500 in the sparse     *)
(* one, for every text.                                                    *)
(***************************************************************************)
Chunks == {splitter.chunks[i] : i \in 1..Len(splitter.chunks)}

C12_ChunkSizeBound ==
  \A c \in Chunks : c.words <= (IF nb = "dense" THEN 100 ELSE 500)

(***************************************************************************)
(* C12, amended.  In the sparse notebook every chunk has at most 500       *)
(* words, and consecutive chunks share 50 words.  In the dense notebook    *)
(* every chunk is made of whole sentences and no word is repeated; a chunk *)
(* has at most 100 words unless it is one sentence that is itself longer   *)
(* than 100 words: such a sentence is not cut.                             *)
(***************************************************************************)
C12_ChunkSizeBoundButLongSentences ==
  /\ nb = "sparse" =>
       /\ \A c \in Chunks : c.words >= 1 /\ c.words <= 500
       /\ (splitter.done /\ splitter.chunks # <<>>) =>
             SumSeq([i \in 1..Len(splitter.chunks) |-> splitter.chunks[i].words])
               = SumSeq(splitter.text) + 50 * (Len(splitter.chunks) - 1)
  /\ nb = "dense" =>
       /\ \A c \in Chunks :
             /\ c.sentences >= 1
             /\ c.words > 100 => c.sentences = 1
       /\ \A i \in 1..Len(splitter.chunks) :
             splitter.chunks[i].words > 100 =>
                \E j \in 1..Len(splitter.text) :
                   splitter.text[j] = splitter.chunks[i].words
       /\ splitter.done =>
             /\ SumSeq([i \in 1..Len(splitter.chunks) |-> splitter.chunks[i].words])
                  = SumSeq(splitter.text)
             /\ SumSeq([i \in 1..Len(splitter.chunks) |-> splitter.chunks[i].sentences])
                  = Len(splitter.text)

C12_Witness ==
  /\ nb = "dense"
  /\ splitter.done
  /\ \E c \in Chunks : c.words > 100
  /\ \E c \in Chunks : c.sentences >= 2

(***************************************************************************)
(* C13.  As claimed: in the dense notebook, whenever the names retriever   *)
(* and sqlite_document_store are bound the retriever's document store is   *)
(* the store object sqlite_document_store names, and so is the document    *)
(* store of the retriever inside the pipeline.                             *)
(***************************************************************************)
StoreOfRetriever(r) == kernel.retrievers[r].document_store

NamedStore == kernel.ref["sqlite_document_store"]

C13_RetrieverOnNamedStore ==
  nb = "dense" =>
    /\ (Bound("retriever") /\ Bound("sqlite_document_store")) =>
          StoreOfRetriever(kernel.ref["retriever"]) = NamedStore
    /\ (Bound("pipe") /\ Bound("sqlite_document_store")) =>
          StoreOfRetriever(kernel.pipes["pipe"].retriever) = NamedStore

(***************************************************************************)
(* C13, amended.  In the dense notebook a reload cell that has completed   *)
(* leaves sqlite_document_store naming the loaded store and retriever      *)
(* naming a retriever on that store, also right after the create path.     *)
(* The retriever, and the retriever inside the pipeline, are on a store    *)
(* other than the one sqlite_document_store names only after a reload cell *)
(* in which load returned and EmbeddingRetriever raised: the name          *)
(* retriever then still holds the retriever of the create path, on the     *)
(* store of the create path, which the loaded store has replaced.          *)
(***************************************************************************)
C13_ReboundTogetherUnlessReloadRaises ==
  nb = "dense" =>
    /\ Ok("reload") =>
          /\ {"sqlite_document_store", "retriever"} \subseteq kernel.bound
          /\ NamedStore = "store@load"
          /\ kernel.ref["retriever"] = "retriever@load"
          /\ StoreOfRetriever("retriever@load") = "store@load"
    /\ (Bound("retriever") /\ Bound("sqlite_document_store")
          /\ StoreOfRetriever(kernel.ref["retriever"]) # NamedStore) =>
          /\ out["reload"] = "LibraryError"
          /\ NamedStore = "store@load"
          /\ kernel.ref["retriever"] = "retriever@create"
          /\ StoreOfRetriever("retriever@create") = "store@create"
    /\ (Bound("pipe") /\ Bound("sqlite_document_store")
          /\ StoreOfRetriever(kernel.pipes["pipe"].retriever) # NamedStore) =>
          /\ out["reload"] = "LibraryError"
          /\ kernel.pipes["pipe"].retriever = "retriever@create"
    /\ (Bound("pipe") /\ Bound("retriever")) =>
          kernel.pipes["pipe"].retriever = kernel.ref["retriever"]

C13_Witness ==
  /\ nb = "dense"
  /\ Ok("create_store") /\ Ok("retriever") /\ Ok("save")
  /\ Ok("reload") /\ Ok("pipe") /\ Ok("query")
  /\ "store@create" \in DOMAIN kernel.stores
  /\ StoreOfRetriever(kernel.pipes["pipe"].retriever) = "store@load"
  /\ kernel.prediction.documents # {}

(***************************************************************************)
(* C14.  In the dense notebook the query is embedded by the model that     *)
(* embedded the Documents: every embedding, in a store object or in the    *)
(* saved index, was computed by                                            *)
(* sentence-transformers/multi-qa-mpnet-base-dot-v1, every retriever is    *)
(* configured with that model, and the retriever inside the pipeline has   *)
(* the model of every embedding of the store it searches, on the create    *)
(* path and on the reload path.                                            *)
(***************************************************************************)
ModelsOf(index) == {index[d] : d \in DOMAIN index}

C14_SameEmbeddingModel ==
  nb = "dense" =>
    /\ \A r \in DOMAIN kernel.retrievers :
          kernel.retrievers[r].embedding_model
            = "sentence-transformers/multi-qa-mpnet-base-dot-v1"
    /\ \A st \in DOMAIN kernel.stores :
          ModelsOf(kernel.stores[st].index)
            \subseteq {"sentence-transformers/multi-qa-mpnet-base-dot-v1"}
    /\ IndexPath \in DOMAIN disk =>
          ModelsOf(disk[IndexPath])
            \subseteq {"sentence-transformers/multi-qa-mpnet-base-dot-v1"}
    /\ Bound("pipe") =>
          ModelsOf(PipeStore.index)
            \subseteq {kernel.retrievers[kernel.pipes["pipe"].retriever].embedding_model}

C14_Witness ==
  /\ nb = "dense"
  /\ Bound("pipe")
  /\ kernel.pipes["pipe"].retriever = "retriever@load"
  /\ "retriever@create" \notin DOMAIN kernel.retrievers
  /\ ModelsOf(PipeStore.index) # {}
  /\ Ok("query")
  /\ kernel.prediction.documents # {}

====
